---------------------------- MODULE Spec2Model ----------------------------
(***************************************************************************)
(* A model of the graph algorithms and the binary heap of the             *)
(* cs-240-library crate: the adjacency-map graph containers, dijkstras,   *)
(* dag, depth_first_search, breadth_first_search, prims and BinaryHeap.   *)
(*                                                                         *)
(* A HashMap is a function on the set of its keys, a HashSet a set, a Vec *)
(* a sequence.  Iterating a HashMap or a HashSet takes the elements in an *)
(* arbitrary order: a for loop over one keeps the set of elements still   *)
(* to come and takes any of them at each step.  A panic (a failed assert, *)
(* an unwrap of None) ends the program at pc = "panic".                   *)
(***************************************************************************)
EXTENDS Integers, Sequences, FiniteSets, TLC

\* Bounds of the model: the node values, the edge weights, the number of
\* edges a graph is given
MaxNodes == 3
MaxWeight == 1
MaxEdges == 4

\* the greatest value stored in a heap, the greatest number of values in it
MaxVal == 3
MaxHeapLen == 6

\* the greatest key and the greatest value given to a map, the greatest
\* number of nodes a map allocates
MaxKey == 3
MaxMapVal == 1
MaxAllocs == 4

\* usize::MAX, 2^64 - 1, written as its representative modulo 2^64 that
\* fits the integers of the model: adding 1 to it gives 0
UsizeMax == -1

Nodes == 1..MaxNodes
Weights == 0..MaxWeight

VARIABLES
    pc,         \* the position of the program
    main,       \* the function the caller has called
    ret,        \* the values returned so far, by function name
    kind,       \* the graph type: "directed" or "weighted"
    adj,        \* DirectedGraph.adj: HashMap<T, HashSet<T>>
                \* WeightedGraph.adj: HashMap<T, HashSet<(T, W)>>
    origin,     \* the origin argument of the call
    target,     \* the target argument of the call
    dist,       \* dijkstras: HashMap node -> tentative distance
    prev,       \* dijkstras: HashMap node -> predecessor
    known,      \* dijkstras: HashSet of the finalized nodes
                \* breadth_first_search: HashMap node -> path
    node,       \* the loop variable node
    weight,     \* dijkstras: the distance of node
    todo,       \* what a for loop over a HashSet has still to take
    res,        \* dijkstras, dag: the Vec of the path under construction
                \* prims: the adj of the WeightedGraph under construction
    cur,        \* dijkstras, dag: the cursor of the predecessor walk
    roots,      \* depth_first_search: HashSet of roots
    order,      \* depth_first_search: Vec of nodes in order of completion
    cyclic,     \* depth_first_search: the cycle flag
    perm_mark,  \* depth_first_search: HashSet of the finished nodes
    temp_mark,  \* depth_first_search: HashSet of the nodes in processing
    all_todo,   \* depth_first_search: what graph.get_all() has still to give
    stack,      \* the frames of the dfs_visit calls in progress
    weights,    \* dag: HashMap node -> weight
    preds,      \* dag: HashMap node -> predecessor
    found,      \* dag: whether origin has been met in the order
    cur_weight, \* dag: the weight of node
    frontier,   \* breadth_first_search: Vec of the current layer
                \* prims: HashSet of (from, (to, weight))
    new_frontier, \* breadth_first_search: Vec of the next layer
    parents,    \* breadth_first_search: the path of the neighbours of node
    total,      \* prims: the sum of the weights of the inserted edges
    heap,       \* BinaryHeap: the inner Vec, heap[1] the blank at index 0
    list,       \* heapsort: the list to sort
    count,      \* into_sorted_vec: the end of the range 0..self.len()
    arg,        \* BinaryHeap: the item given to the last insert or remove
    map,        \* BST: root and size, and mem, the nodes allocated so far
    key,        \* Map: the key given to the last insert or remove
    shadow,     \* history: the keys inserted and not removed since, each
                \* with the value of its last insert
    marks,      \* chart_forest: HashMap node -> bool, true once finished
    trees,      \* chart_forest: HashMap root -> TreeChart { cyclic, topo }
    topo,       \* chart_forest: the Vec topo of the tree under construction
    adj_before  \* history: adj before the last insert_node of a stored node

ctl == <<pc, ret>>
gvars == <<kind, adj>>
args == <<main, origin, target>>
djvars == <<dist, prev, known, node, weight, todo, res, cur>>
dfsvars == <<roots, order, cyclic, perm_mark, temp_mark, all_todo, stack>>
dagvars == <<weights, preds, found, cur_weight>>
bfsvars == <<frontier, new_frontier, parents>>
primsvars == <<total>>
heapvars == <<heap, list, count, arg>>
mapvars == <<map, key, shadow>>
chartvars == <<marks, trees, topo>>
histvars == <<adj_before>>
vars == <<ctl, gvars, args, djvars, dfsvars, dagvars, bfsvars, primsvars, heapvars,
          mapvars, chartvars, histvars>>

\* what the graph operations, dijkstras and depth_first_search leave alone
locals == <<djvars, dfsvars, dagvars, bfsvars, primsvars, heapvars, mapvars, chartvars, histvars>>
xdj == <<dfsvars, dagvars, bfsvars, primsvars, heapvars, mapvars, chartvars, histvars>>
xdfs == <<djvars, dagvars, bfsvars, primsvars, heapvars, mapvars, chartvars, histvars>>

-----------------------------------------------------------------------------
\* Option<T>: None and Some(x)
None == [tag |-> "None", val |-> <<>>]
Some(x) == [tag |-> "Some", val |-> x]
IsSome(o) == o.tag = "Some"
IsNone(o) == o.tag = "None"

\* HashMap: the empty map, insert, remove, get
EmptyMap == <<>>
MapInsert(m, k, v) == [x \in (DOMAIN m) \cup {k} |-> IF x = k THEN v ELSE m[x]]
MapRemove(m, k) == [x \in (DOMAIN m) \ {k} |-> m[x]]
MapGet(m, k) == IF k \in DOMAIN m THEN Some(m[k]) ELSE None

\* Vec::reverse
Reverse(s) == [i \in 1..Len(s) |-> s[Len(s) + 1 - i]]

-----------------------------------------------------------------------------
\* DirectedGraph (directed_graph.rs) and WeightedGraph (weighted_graph.rs)

\* get_adj_weighted: the (node, weight) pairs stored for n, the empty set
\* when n is not a key
get_adj_weighted(n) == IF n \in DOMAIN adj THEN adj[n] ELSE {}

\* get_adj: the set stored for n, the weights dropped in a WeightedGraph;
\* the empty set when n is not a key
get_adj(n) ==
    IF n \in DOMAIN adj
       THEN IF kind = "weighted" THEN {e[1] : e \in adj[n]} ELSE adj[n]
       ELSE {}

contains(n) == n \in DOMAIN adj

\* get_all: the keys; the order of the Vec is the map's iteration order
get_all == DOMAIN adj

RECURSIVE CountEdges(_)
CountEdges(S) ==
    IF S = {} THEN 0
    ELSE LET n == CHOOSE x \in S : TRUE
         IN Cardinality(adj[n]) + CountEdges(S \ {n})

EdgeCount == CountEdges(DOMAIN adj)

\* (mutant) the key is bound to an empty set and so is every other key
InsertNode_clear(g, n) == [x \in (DOMAIN g) \cup {n} |-> {}]

\* insert_node on the map g: the key is bound, or bound again, to an empty
\* set
InsertNode(g, n) == MapInsert(g, n, {})

\* insert_edge_weighted on the map g: only when from is a key; to need not
\* be one
InsertEdgeWeighted(g, from, to, w) ==
    IF from \in DOMAIN g THEN [g EXCEPT ![from] = @ \cup {<<to, w>>}] ELSE g

insert_node(n) ==
    /\ pc = "build"
    /\ adj' = InsertNode(adj, n)
    /\ UNCHANGED <<ctl, kind, args, locals>>

remove_node(n) ==
    /\ pc = "build"
    /\ n \in DOMAIN adj
    /\ adj' = MapRemove(adj, n)
    /\ UNCHANGED <<ctl, kind, args, locals>>

\* DirectedGraph::insert_edge: only when from is a key; to need not be one
insert_edge(from, to) ==
    /\ pc = "build"
    /\ kind = "directed"
    /\ from \in DOMAIN adj
    /\ to \notin adj[from]
    /\ EdgeCount < MaxEdges
    /\ adj' = [adj EXCEPT ![from] = @ \cup {to}]
    /\ UNCHANGED <<ctl, kind, args, locals>>

remove_edge(from, to) ==
    /\ pc = "build"
    /\ kind = "directed"
    /\ from \in DOMAIN adj
    /\ to \in adj[from]
    /\ adj' = [adj EXCEPT ![from] = @ \ {to}]
    /\ UNCHANGED <<ctl, kind, args, locals>>

insert_edge_weighted(from, to, w) ==
    /\ pc = "build"
    /\ kind = "weighted"
    /\ from \in DOMAIN adj
    /\ <<to, w>> \notin adj[from]
    /\ EdgeCount < MaxEdges
    /\ adj' = InsertEdgeWeighted(adj, from, to, w)
    /\ UNCHANGED <<ctl, kind, args, locals>>

remove_edge_weighted(from, to, w) ==
    /\ pc = "build"
    /\ kind = "weighted"
    /\ from \in DOMAIN adj
    /\ <<to, w>> \in adj[from]
    /\ adj' = [adj EXCEPT ![from] = @ \ {<<to, w>>}]
    /\ UNCHANGED <<ctl, kind, args, locals>>

\* the edge is given in both directions, as the caller of prims gives it:
\* insert_edge_weighted(a, b, w); insert_edge_weighted(b, a, w)
insert_edge_weighted_pair(a, b, w) ==
    /\ pc = "build"
    /\ kind = "weighted"
    /\ a \in DOMAIN adj \/ b \in DOMAIN adj
    /\ EdgeCount <= MaxEdges
    /\ adj' = InsertEdgeWeighted(InsertEdgeWeighted(adj, a, b, w), b, a, w)
    /\ adj' # adj
    /\ UNCHANGED <<ctl, kind, args, locals>>

\* UndirectedGraph (undirected_graph.rs): adj is a HashMap<T, HashSet<T>>

\* inner_insert_edge on the map g: only when from is a key
inner_insert_edge(g, from, to) ==
    IF from \in DOMAIN g THEN [g EXCEPT ![from] = @ \cup {to}] ELSE g

\* inner_remove_edge on the map g: only when from is a key
inner_remove_edge(g, from, to) ==
    IF from \in DOMAIN g THEN [g EXCEPT ![from] = @ \ {to}] ELSE g

\* UndirectedGraph::insert_edge: inner_insert_edge one way, then the other
undirected_insert_edge(left, right) ==
    /\ pc = "build"
    /\ kind = "undirected"
    /\ adj' = inner_insert_edge(inner_insert_edge(adj, left, right), right, left)
    /\ UNCHANGED <<ctl, kind, args, locals>>

\* UndirectedGraph::remove_edge: inner_remove_edge one way, then the other
undirected_remove_edge(left, right) ==
    /\ pc = "build"
    /\ kind = "undirected"
    /\ adj' = inner_remove_edge(inner_remove_edge(adj, left, right), right, left)
    /\ UNCHANGED <<ctl, kind, args, locals>>

\* UndirectedGraph::remove_node: node is taken out of the set of every
\* neighbour listed in get_adj(&node) that is a key, then its entry is
\* removed
undirected_remove_node(n) ==
    /\ pc = "build"
    /\ kind = "undirected"
    /\ n \in DOMAIN adj
    /\ adj' = MapRemove([m \in DOMAIN adj |->
                            IF m \in get_adj(n) THEN adj[m] \ {n} ELSE adj[m]], n)
    /\ UNCHANGED <<ctl, kind, args, locals>>

BuildUndirected ==
    \/ \E n \in Nodes : insert_node(n)
    \/ \E n \in Nodes : undirected_remove_node(n)
    \/ \E left \in Nodes, right \in Nodes : undirected_insert_edge(left, right)
    \/ \E left \in Nodes, right \in Nodes : undirected_remove_edge(left, right)

\* the call of insert_node that the caller looks at: the node given and the
\* adjacency map before the call are recorded
graph_insert_node(n) ==
    /\ pc = "build"
    /\ adj' = InsertNode(adj, n)
    /\ main' = "insert_node"
    /\ node' = n
    /\ adj_before' = adj
    /\ pc' = "insert_node_done"
    /\ UNCHANGED <<ret, kind, origin, target, dist, prev, known, weight, todo, res, cur,
                   dfsvars, dagvars, bfsvars, primsvars, heapvars, mapvars, chartvars>>

\* the operations of the three graph types, each on a graph of its type
GraphOps ==
    \/ \E n \in Nodes : insert_node(n)
    \/ \E n \in Nodes : kind # "undirected" /\ remove_node(n)
    \/ \E n \in Nodes : undirected_remove_node(n)
    \/ \E from \in Nodes, to \in Nodes : insert_edge(from, to)
    \/ \E from \in Nodes, to \in Nodes : remove_edge(from, to)
    \/ \E from \in Nodes, to \in Nodes, w \in Weights : insert_edge_weighted(from, to, w)
    \/ \E from \in Nodes, to \in Nodes, w \in Weights : remove_edge_weighted(from, to, w)
    \/ \E left \in Nodes, right \in Nodes : undirected_insert_edge(left, right)
    \/ \E left \in Nodes, right \in Nodes : undirected_remove_edge(left, right)
    \/ \E n \in Nodes : graph_insert_node(n)

BuildDirected ==
    \/ \E n \in Nodes : insert_node(n)
    \/ \E n \in Nodes : remove_node(n)
    \/ \E from \in Nodes, to \in Nodes : insert_edge(from, to)
    \/ \E from \in Nodes, to \in Nodes : remove_edge(from, to)

BuildWeighted ==
    \/ \E n \in Nodes : insert_node(n)
    \/ \E n \in Nodes : remove_node(n)
    \/ \E from \in Nodes, to \in Nodes, w \in Weights : insert_edge_weighted(from, to, w)
    \/ \E from \in Nodes, to \in Nodes, w \in Weights : remove_edge_weighted(from, to, w)

\* the graph of a caller that gives every edge in both directions
BuildPaired ==
    \/ \E n \in Nodes : insert_node(n)
    \/ \E from \in Nodes, to \in Nodes, w \in Weights : insert_edge_weighted(from, to, w)
    \/ \E a \in Nodes, b \in Nodes, w \in Weights : insert_edge_weighted_pair(a, b, w)

-----------------------------------------------------------------------------
\* dijkstras (dijkstras.rs)

\* the call: dist = {origin -> 0}, prev and known empty.  The caller calls
\* it on a graph it has built, or after dag on dag's arguments.
dijkstras_call(o, t) ==
    /\ \/ pc = "build" /\ main' = "dijkstras"
       \/ pc = "dag_done" /\ o = origin /\ t = target /\ main' = main
    /\ pc' = "dj_while"
    /\ origin' = o
    /\ target' = t
    /\ dist' = MapInsert(EmptyMap, o, 0)
    /\ prev' = EmptyMap
    /\ known' = {}
    /\ UNCHANGED <<ret, gvars, node, weight, todo, res, cur, xdj>>

\* (mutant) any entry of dist, not a least one
IsMinEntry_any(n) == n \in DOMAIN dist

\* min_by_key over the entries of dist: an entry of least weight, whichever
\* of the least ones the iteration order of the map puts first
IsMinEntry(n) == n \in DOMAIN dist /\ \A m \in DOMAIN dist : dist[n] <= dist[m]

\* while !known.contains(target): take a least entry out of dist, finalize
\* its node and start the loop over its weighted adjacency
dijkstras_extract(n) ==
    /\ pc = "dj_while"
    /\ target \notin known
    /\ IsMinEntry(n)
    /\ node' = n
    /\ weight' = dist[n]
    /\ dist' = MapRemove(dist, n)
    /\ IF n \notin known
          THEN /\ known' = known \cup {n}
               /\ todo' = get_adj_weighted(n)
               /\ pc' = "dj_relax"
          ELSE UNCHANGED <<known, todo, pc>>
    /\ UNCHANGED <<ret, gvars, args, prev, res, cur, xdj>>

\* dist is empty: return None
dijkstras_exhausted ==
    /\ pc = "dj_while"
    /\ target \notin known
    /\ DOMAIN dist = {}
    /\ ret' = MapInsert(ret, "dijkstras", None)
    /\ pc' = "dj_done"
    /\ UNCHANGED <<gvars, args, djvars, xdj>>

\* (mutant) a node without a distance is never discovered
RelaxArm_nodiscover(a, ew) ==
    IF a \in DOMAIN dist /\ a \in DOMAIN prev /\ dist[a] > weight + ew
       THEN "improve"
       ELSE "skip"

\* (mutant) a node without a distance is discovered whether or not it has a
\* predecessor
RelaxArm_reopen(a, ew) ==
    IF a \in DOMAIN dist /\ a \in DOMAIN prev
       THEN IF dist[a] > weight + ew THEN "improve" ELSE "skip"
       ELSE IF a \notin DOMAIN dist /\ a # origin
               THEN "discover"
               ELSE "skip"

\* (mutant) origin is discovered like any other node
RelaxArm_origin(a, ew) ==
    IF a \in DOMAIN dist /\ a \in DOMAIN prev
       THEN IF dist[a] > weight + ew THEN "improve" ELSE "skip"
       ELSE IF a \notin DOMAIN dist /\ a \notin DOMAIN prev
               THEN "discover"
               ELSE "skip"

\* the arm of the match on (dist.get_mut(&adj), prev.get_mut(&adj)) that
\* the edge (a, ew) out of node takes
RelaxArm(a, ew) ==
    IF a \in DOMAIN dist /\ a \in DOMAIN prev
       THEN IF dist[a] > weight + ew THEN "improve" ELSE "skip"
       ELSE IF a \notin DOMAIN dist /\ a \notin DOMAIN prev /\ a # origin
               THEN "discover"
               ELSE "skip"

\* one iteration of for (adj, edge_weight) in graph.get_adj_weighted(&node)
dijkstras_relax(e) ==
    /\ pc = "dj_relax"
    /\ e \in todo
    /\ todo' = todo \ {e}
    /\ IF RelaxArm(e[1], e[2]) = "skip"
          THEN UNCHANGED <<dist, prev>>
          ELSE /\ dist' = MapInsert(dist, e[1], weight + e[2])
               /\ prev' = MapInsert(prev, e[1], node)
    /\ UNCHANGED <<ctl, gvars, args, known, node, weight, res, cur, xdj>>

\* the for loop is over
dijkstras_relaxed ==
    /\ pc = "dj_relax"
    /\ todo = {}
    /\ pc' = "dj_while"
    /\ UNCHANGED <<ret, gvars, args, djvars, xdj>>

\* the while loop ends with target in known: res = vec![target],
\* cur = prev.get(target)
dijkstras_found ==
    /\ pc = "dj_while"
    /\ target \in known
    /\ res' = <<target>>
    /\ cur' = MapGet(prev, target)
    /\ pc' = "dj_walk"
    /\ UNCHANGED <<ret, gvars, args, dist, prev, known, node, weight, todo, xdj>>

\* while let Some(curr) = cur: push curr, cur = prev.get(curr)
dijkstras_walk ==
    /\ pc = "dj_walk"
    /\ IsSome(cur)
    /\ res' = Append(res, cur.val)
    /\ cur' = MapGet(prev, cur.val)
    /\ UNCHANGED <<ctl, gvars, args, dist, prev, known, node, weight, todo, xdj>>

\* res.reverse(); Some(res)
dijkstras_return ==
    /\ pc = "dj_walk"
    /\ IsNone(cur)
    /\ ret' = MapInsert(ret, "dijkstras", Some(Reverse(res)))
    /\ pc' = "dj_done"
    /\ UNCHANGED <<gvars, args, djvars, xdj>>

\* the steps of a call in progress
DijkstrasSteps ==
    \/ \E n \in Nodes : dijkstras_extract(n)
    \/ dijkstras_exhausted
    \/ \E e \in Nodes \X Weights : dijkstras_relax(e)
    \/ dijkstras_relaxed
    \/ dijkstras_found
    \/ dijkstras_walk
    \/ dijkstras_return

Dijkstras ==
    \/ \E o \in Nodes, t \in Nodes : dijkstras_call(o, t)
    \/ \E n \in Nodes : dijkstras_extract(n)
    \/ dijkstras_exhausted
    \/ \E e \in Nodes \X Weights : dijkstras_relax(e)
    \/ dijkstras_relaxed
    \/ dijkstras_found
    \/ dijkstras_walk
    \/ dijkstras_return

-----------------------------------------------------------------------------
\* depth_first_search and dfs_visit (dfs.rs)

\* the call: every tracking variable empty, the loop over graph.get_all()
\* about to start
depth_first_search_begin ==
    /\ roots' = {}
    /\ order' = <<>>
    /\ cyclic' = FALSE
    /\ perm_mark' = {}
    /\ temp_mark' = {}
    /\ all_todo' = get_all
    /\ stack' = <<>>
    /\ pc' = "dfs_for"

depth_first_search_call ==
    /\ pc = "build"
    /\ main' = "depth_first_search"
    /\ depth_first_search_begin
    /\ UNCHANGED <<ret, gvars, origin, target, xdfs>>

\* (mutant) a finished neighbour is taken for a cycle too
VisitCyclic_anymark(n, c) == c \/ n \in perm_mark \/ n \in temp_mark

\* the value of *cyclic after the entry of dfs_visit(n): set when n is not
\* finished and is in processing
VisitCyclic(n, c) == c \/ (n \notin perm_mark /\ n \in temp_mark)

\* (mutant) a node reached again stays in roots
VisitRoots_keep(n, r) == r

\* the value of roots after the entry of dfs_visit(n), r before it: n is
\* removed when it is finished or in processing
VisitRoots(n, r) == IF n \in perm_mark \/ n \in temp_mark THEN r \ {n} ELSE r

\* whether dfs_visit(n) goes past its two early returns
VisitNew(n) == n \notin perm_mark /\ n \notin temp_mark

\* dfs_visit(n) up to its loop: the early returns, or n marked in processing
\* and a frame pushed with the adjacency of n to go through
dfs_visit_enter(n, r) ==
    /\ roots' = VisitRoots(n, r)
    /\ cyclic' = VisitCyclic(n, cyclic)
    /\ IF VisitNew(n)
          THEN /\ temp_mark' = temp_mark \cup {n}
               /\ stack' = Append(stack, [node |-> n, todo |-> get_adj(n)])
               /\ pc' = "dfs_visit"
          ELSE /\ UNCHANGED temp_mark
               /\ stack' = stack
               /\ pc' = IF stack = <<>> THEN "dfs_for" ELSE "dfs_visit"

\* one iteration of for origin in graph.get_all()
depth_first_search_for(o) ==
    /\ pc = "dfs_for"
    /\ o \in all_todo
    /\ all_todo' = all_todo \ {o}
    /\ IF o \notin perm_mark /\ o \notin temp_mark
          THEN dfs_visit_enter(o, roots \cup {o})
          ELSE UNCHANGED <<roots, cyclic, temp_mark, stack, pc>>
    /\ UNCHANGED <<ret, gvars, args, xdfs, order, perm_mark>>

\* one iteration of for node in graph.get_adj(&node): the recursive call
dfs_visit_for(n) ==
    /\ pc = "dfs_visit"
    /\ n \in stack[Len(stack)].todo
    /\ LET top == stack[Len(stack)]
           rest == [stack EXCEPT ![Len(stack)].todo = @ \ {n}]
       IN /\ roots' = VisitRoots(n, roots)
          /\ cyclic' = VisitCyclic(n, cyclic)
          /\ IF VisitNew(n)
                THEN /\ temp_mark' = temp_mark \cup {n}
                     /\ stack' = Append(rest, [node |-> n, todo |-> get_adj(n)])
                ELSE /\ UNCHANGED temp_mark
                     /\ stack' = rest
    /\ UNCHANGED <<ctl, gvars, args, xdfs, order, perm_mark, all_todo>>

\* the loop of dfs_visit is over: the node is finished and pushed on order
dfs_visit_return ==
    /\ pc = "dfs_visit"
    /\ stack[Len(stack)].todo = {}
    /\ LET n == stack[Len(stack)].node
       IN /\ temp_mark' = temp_mark \ {n}
          /\ perm_mark' = perm_mark \cup {n}
          /\ order' = Append(order, n)
    /\ stack' = SubSeq(stack, 1, Len(stack) - 1)
    /\ pc' = IF Len(stack) = 1 THEN "dfs_for" ELSE "dfs_visit"
    /\ UNCHANGED <<ret, gvars, args, xdfs, roots, cyclic, all_todo>>

\* (mutant) the order is returned as pushed, not reversed
ReturnedOrder_pushed(o) == o

\* order.reverse()
ReturnedOrder(o) == Reverse(o)

\* the outer loop is over: (roots, order, cyclic) is returned
depth_first_search_return ==
    /\ pc = "dfs_for"
    /\ all_todo = {}
    /\ order' = ReturnedOrder(order)
    /\ ret' = MapInsert(ret, "depth_first_search",
                        [roots |-> roots, order |-> order', cyclic |-> cyclic])
    /\ pc' = IF main = "dag" THEN "dag_assert" ELSE "dfs_done"
    /\ UNCHANGED <<gvars, args, xdfs, roots, cyclic, perm_mark, temp_mark,
                   all_todo, stack>>

\* the steps of a call in progress
DepthFirstSearchSteps ==
    \/ \E o \in Nodes : depth_first_search_for(o)
    \/ \E n \in Nodes : dfs_visit_for(n)
    \/ dfs_visit_return
    \/ depth_first_search_return

DepthFirstSearch ==
    \/ depth_first_search_call
    \/ DepthFirstSearchSteps

-----------------------------------------------------------------------------
\* chart_forest (dfs.rs)

\* what chart_forest leaves alone
xchart == <<origin, target, djvars, roots, order, perm_mark, temp_mark, dagvars, bfsvars,
            primsvars, heapvars, mapvars, histvars>>

\* the call: marks and trees empty, the loop over graph.get_all() about to
\* start
chart_forest_call ==
    /\ pc = "build"
    /\ main' = "chart_forest"
    /\ marks' = EmptyMap
    /\ trees' = EmptyMap
    /\ topo' = <<>>
    /\ cyclic' = FALSE
    /\ all_todo' = get_all
    /\ stack' = <<>>
    /\ pc' = "chart_for"
    /\ UNCHANGED <<ret, gvars, xchart>>

\* one iteration of for root in graph.get_all(): a root without a mark
\* starts a tree with cyclic = false and topo = vec![], and chart_tree(root)
\* marks it false and starts the loop over its adjacency
chart_forest_for(root) ==
    /\ pc = "chart_for"
    /\ root \in all_todo
    /\ all_todo' = all_todo \ {root}
    /\ IF root \notin DOMAIN marks
          THEN /\ cyclic' = FALSE
               /\ topo' = <<>>
               /\ marks' = MapInsert(marks, root, FALSE)
               /\ stack' = <<[node |-> root, todo |-> get_adj(root)]>>
               /\ pc' = "chart_tree"
          ELSE UNCHANGED <<cyclic, topo, marks, stack, pc>>
    /\ UNCHANGED <<ret, gvars, main, trees, xchart>>

\* *cyclic after chart_tree(n) has met the mark of n: a finished n that is
\* the root of an earlier tree gives *cyclic && other.cyclic, a finished n
\* that is not leaves it, an n in processing sets it
ChartCyclic(n, c) ==
    IF marks[n]
       THEN IF n \in DOMAIN trees THEN c /\ trees[n].cyclic ELSE c
       ELSE TRUE

\* topo after chart_tree(n) has met the mark of n: the topo of the tree
\* removed from trees, if n was the root of one, is appended
ChartTopo(n, t) == IF n \in DOMAIN trees THEN t \o trees[n].topo ELSE t

\* one iteration of for node in graph.get_adj(&node): the recursive call
\* chart_tree(n), which returns at once when n has a mark
chart_tree_for(n) ==
    /\ pc = "chart_tree"
    /\ n \in stack[Len(stack)].todo
    /\ LET rest == [stack EXCEPT ![Len(stack)].todo = @ \ {n}]
       IN IF n \in DOMAIN marks
             THEN /\ trees' = MapRemove(trees, n)
                  /\ cyclic' = ChartCyclic(n, cyclic)
                  /\ topo' = ChartTopo(n, topo)
                  /\ stack' = rest
                  /\ UNCHANGED marks
             ELSE /\ marks' = MapInsert(marks, n, FALSE)
                  /\ stack' = Append(rest, [node |-> n, todo |-> get_adj(n)])
                  /\ UNCHANGED <<trees, cyclic, topo>>
    /\ UNCHANGED <<ctl, gvars, main, all_todo, xchart>>

\* the loop of chart_tree is over: the node is marked true and pushed on
\* topo; when it is the root, trees.insert(root, TreeChart { cyclic, topo })
chart_tree_return ==
    /\ pc = "chart_tree"
    /\ stack[Len(stack)].todo = {}
    /\ LET n == stack[Len(stack)].node
       IN /\ marks' = MapInsert(marks, n, TRUE)
          /\ topo' = Append(topo, n)
          /\ IF Len(stack) = 1
                THEN /\ trees' = MapInsert(trees, n, [cyclic |-> cyclic, topo |-> topo'])
                     /\ pc' = "chart_for"
                ELSE UNCHANGED <<trees, pc>>
    /\ stack' = SubSeq(stack, 1, Len(stack) - 1)
    /\ UNCHANGED <<ret, gvars, main, cyclic, all_todo, xchart>>

\* the outer loop is over: ForestChart { graph, trees } is returned
chart_forest_return ==
    /\ pc = "chart_for"
    /\ all_todo = {}
    /\ ret' = MapInsert(ret, "chart_forest", trees)
    /\ pc' = "chart_done"
    /\ UNCHANGED <<gvars, main, cyclic, all_todo, stack, chartvars, xchart>>

ChartForest ==
    \/ chart_forest_call
    \/ \E root \in Nodes : chart_forest_for(root)
    \/ \E n \in Nodes : chart_tree_for(n)
    \/ chart_tree_return
    \/ chart_forest_return

-----------------------------------------------------------------------------
\* dag (dag_expl.rs)

\* what dag leaves alone
xdag == <<dist, prev, known, weight, roots, cyclic, perm_mark, temp_mark, all_todo,
          stack, bfsvars, primsvars, heapvars, mapvars, chartvars, histvars>>

\* the call: depth_first_search(graph.clone()) is called first
dag_call(o, t) ==
    /\ pc = "build"
    /\ main' = "dag"
    /\ origin' = o
    /\ target' = t
    /\ depth_first_search_begin
    /\ UNCHANGED <<ret, gvars, xdfs>>

\* (mutant) the assertion is left out
dag_assert_off ==
    /\ pc = "dag_assert"
    /\ pc' = "dag_for"
    /\ weights' = EmptyMap
    /\ preds' = EmptyMap
    /\ found' = FALSE
    /\ UNCHANGED <<ret, gvars, args, cur_weight, node, todo, res, cur, order, xdag>>

\* assert!(!cyclic), then weights and preds empty, found = false
dag_assert ==
    /\ pc = "dag_assert"
    /\ IF cyclic
          THEN /\ pc' = "panic"
               /\ UNCHANGED dagvars
          ELSE /\ pc' = "dag_for"
               /\ weights' = EmptyMap
               /\ preds' = EmptyMap
               /\ found' = FALSE
               /\ UNCHANGED cur_weight
    /\ UNCHANGED <<ret, gvars, args, node, todo, res, cur, order, xdag>>

\* one iteration of for node in order, up to its inner loop: the origin
\* branch, the branch of a node after origin (the unwrap panics when the
\* node has no weight), the return of None at a target before origin
dag_for ==
    /\ pc = "dag_for"
    /\ order # <<>>
    /\ node' = Head(order)
    /\ order' = Tail(order)
    /\ IF node' = origin
          THEN /\ found' = TRUE
               /\ weights' = MapInsert(weights, node', 0)
               /\ todo' = get_adj_weighted(node')
               /\ pc' = "dag_origin"
               /\ UNCHANGED <<ret, cur_weight>>
          ELSE IF found
          THEN /\ IF node' \in DOMAIN weights
                     THEN /\ cur_weight' = weights[node']
                          /\ todo' = get_adj_weighted(node')
                          /\ pc' = "dag_relax"
                     ELSE /\ pc' = "panic"
                          /\ UNCHANGED <<cur_weight, todo>>
               /\ UNCHANGED <<ret, found, weights>>
          ELSE /\ IF node' = target
                     THEN /\ ret' = MapInsert(ret, "dag", None)
                          /\ pc' = "dag_done"
                     ELSE UNCHANGED <<ret, pc>>
               /\ UNCHANGED <<found, weights, todo, cur_weight>>
    /\ UNCHANGED <<gvars, args, preds, res, cur, xdag>>

\* one iteration of for (adj, weight) in graph.get_adj_weighted(&node) in
\* the origin branch: both maps are written, whatever they hold
dag_origin(e) ==
    /\ pc = "dag_origin"
    /\ e \in todo
    /\ todo' = todo \ {e}
    /\ weights' = MapInsert(weights, e[1], e[2])
    /\ preds' = MapInsert(preds, e[1], node)
    /\ UNCHANGED <<ctl, gvars, args, found, cur_weight, node, res, cur, order, xdag>>

\* the arm of the match on (weights.get_mut(&adj), preds.get_mut(&adj)) that
\* the edge (a, w) out of node takes
DagArm(a, w) ==
    IF a \in DOMAIN weights /\ a \in DOMAIN preds
       THEN IF weights[a] > w + cur_weight THEN "improve" ELSE "skip"
       ELSE IF a \notin DOMAIN weights /\ a \notin DOMAIN preds
               THEN "discover"
               ELSE "skip"

\* the weight the arm writes: weight + cur_weight when it improves, weight
\* alone when it discovers
DagWeight(arm, w) == IF arm = "improve" THEN w + cur_weight ELSE w

\* one iteration of the inner loop in the branch of a node after origin
dag_relax(e) ==
    /\ pc = "dag_relax"
    /\ e \in todo
    /\ todo' = todo \ {e}
    /\ LET arm == DagArm(e[1], e[2])
       IN IF arm = "skip"
             THEN UNCHANGED <<weights, preds>>
             ELSE /\ weights' = MapInsert(weights, e[1], DagWeight(arm, e[2]))
                  /\ preds' = MapInsert(preds, e[1], node)
    /\ UNCHANGED <<ctl, gvars, args, found, cur_weight, node, res, cur, order, xdag>>

\* an inner loop is over
dag_adj_end ==
    /\ pc \in {"dag_origin", "dag_relax"}
    /\ todo = {}
    /\ pc' = "dag_for"
    /\ UNCHANGED <<ret, gvars, args, dagvars, node, todo, res, cur, order, xdag>>

\* the loop over order is over: None when origin was not met, else
\* res = vec![target], cur = preds.get(target)
dag_for_end ==
    /\ pc = "dag_for"
    /\ order = <<>>
    /\ IF ~found
          THEN /\ ret' = MapInsert(ret, "dag", None)
               /\ pc' = "dag_done"
               /\ UNCHANGED <<res, cur>>
          ELSE /\ res' = <<target>>
               /\ cur' = MapGet(preds, target)
               /\ pc' = "dag_walk"
               /\ UNCHANGED ret
    /\ UNCHANGED <<gvars, args, dagvars, node, todo, order, xdag>>

\* while let Some(curr) = cur: push curr, cur = preds.get(curr)
dag_walk ==
    /\ pc = "dag_walk"
    /\ IsSome(cur)
    /\ res' = Append(res, cur.val)
    /\ cur' = MapGet(preds, cur.val)
    /\ UNCHANGED <<ctl, gvars, args, dagvars, node, todo, order, xdag>>

\* res.reverse(); Some(res)
dag_return ==
    /\ pc = "dag_walk"
    /\ IsNone(cur)
    /\ ret' = MapInsert(ret, "dag", Some(Reverse(res)))
    /\ pc' = "dag_done"
    /\ UNCHANGED <<gvars, args, dagvars, node, todo, res, cur, order, xdag>>

Dag ==
    \/ \E o \in Nodes, t \in Nodes : dag_call(o, t)
    \/ dag_assert
    \/ dag_for
    \/ \E e \in Nodes \X Weights : dag_origin(e)
    \/ \E e \in Nodes \X Weights : dag_relax(e)
    \/ dag_adj_end
    \/ dag_for_end
    \/ dag_walk
    \/ dag_return

-----------------------------------------------------------------------------
\* breadth_first_search (bfs.rs)

\* what breadth_first_search leaves alone
xbfs == <<target, dist, prev, weight, res, cur, dfsvars, dagvars, primsvars, heapvars,
          mapvars, chartvars, histvars>>

\* the call: frontier = vec![origin], known = {origin -> []}
breadth_first_search_call(o) ==
    /\ pc = "build"
    /\ main' = "breadth_first_search"
    /\ origin' = o
    /\ frontier' = <<o>>
    /\ known' = MapInsert(EmptyMap, o, <<>>)
    /\ pc' = "bfs_while"
    /\ UNCHANGED <<ret, gvars, node, todo, new_frontier, parents, xbfs>>

\* while frontier.len() > 0: a new layer is started
breadth_first_search_while ==
    /\ pc = "bfs_while"
    /\ Len(frontier) > 0
    /\ new_frontier' = <<>>
    /\ pc' = "bfs_for"
    /\ UNCHANGED <<ret, gvars, main, origin, known, node, todo, frontier, parents, xbfs>>

\* the frontier is empty: known is returned
breadth_first_search_return ==
    /\ pc = "bfs_while"
    /\ Len(frontier) = 0
    /\ ret' = MapInsert(ret, "breadth_first_search", known)
    /\ pc' = "bfs_done"
    /\ UNCHANGED <<gvars, main, origin, known, node, todo, bfsvars, xbfs>>

\* (mutant) the node itself is not pushed on the path of its neighbours
Parents_nopush(n) == known[n]

\* parents = known.get(&node).unwrap().clone(); parents.push(node.clone())
Parents(n) == Append(known[n], n)

\* one iteration of for node in frontier, up to its loop over the adjacency
breadth_first_search_node ==
    /\ pc = "bfs_for"
    /\ frontier # <<>>
    /\ node' = Head(frontier)
    /\ frontier' = Tail(frontier)
    /\ IF Head(frontier) \in DOMAIN known
          THEN /\ parents' = Parents(Head(frontier))
               /\ todo' = get_adj(Head(frontier))
               /\ pc' = "bfs_adj"
          ELSE /\ UNCHANGED <<parents, todo>>
               /\ pc' = "panic"
    /\ UNCHANGED <<ret, gvars, main, origin, known, new_frontier, xbfs>>

\* (mutant) the path of a neighbour already known is overwritten
KnownAfter_overwrite(a) == MapInsert(known, a, parents)

\* known after the neighbour a is met: a new one gets the path parents
KnownAfter(a) == IF a \notin DOMAIN known THEN MapInsert(known, a, parents) ELSE known

\* (mutant) a new neighbour is recorded and never explored
FrontierAfter_drop(a) == new_frontier

\* new_frontier after the neighbour a is met: a new one is pushed
FrontierAfter(a) == IF a \notin DOMAIN known THEN Append(new_frontier, a) ELSE new_frontier

\* one iteration of for adj in graph.get_adj(&node)
breadth_first_search_adj(a) ==
    /\ pc = "bfs_adj"
    /\ a \in todo
    /\ todo' = todo \ {a}
    /\ known' = KnownAfter(a)
    /\ new_frontier' = FrontierAfter(a)
    /\ UNCHANGED <<ctl, gvars, main, origin, node, frontier, parents, xbfs>>

\* the loop over the adjacency is over
breadth_first_search_adj_end ==
    /\ pc = "bfs_adj"
    /\ todo = {}
    /\ pc' = "bfs_for"
    /\ UNCHANGED <<ret, gvars, main, origin, known, node, todo, bfsvars, xbfs>>

\* the loop over the frontier is over: frontier = new_frontier
breadth_first_search_layer_end ==
    /\ pc = "bfs_for"
    /\ frontier = <<>>
    /\ frontier' = new_frontier
    /\ pc' = "bfs_while"
    /\ UNCHANGED <<ret, gvars, main, origin, known, node, todo, new_frontier, parents, xbfs>>

BreadthFirstSearch ==
    \/ \E o \in Nodes : breadth_first_search_call(o)
    \/ breadth_first_search_while
    \/ breadth_first_search_return
    \/ breadth_first_search_node
    \/ \E a \in Nodes : breadth_first_search_adj(a)
    \/ breadth_first_search_adj_end
    \/ breadth_first_search_layer_end

-----------------------------------------------------------------------------
\* prims (prims.rs)

\* what prims leaves alone
xprims == <<target, dist, prev, known, node, weight, todo, cur, dfsvars, dagvars,
            new_frontier, parents, heapvars, mapvars, chartvars, histvars>>

\* (mutant) the edges out of a node that enters res do not join the frontier
FrontierOf_none(n) == {}

\* the frontier records of the edges out of n
FrontierOf(n) == {<<n, e>> : e \in get_adj_weighted(n)}

\* the call: res holds origin alone, the frontier the edges out of origin
prims_call(o) ==
    /\ pc = "build"
    /\ main' = "prims"
    /\ origin' = o
    /\ res' = InsertNode(EmptyMap, o)
    /\ frontier' = {<<o, e>> : e \in get_adj_weighted(o)}
    /\ total' = 0
    /\ pc' = "prims_while"
    /\ UNCHANGED <<ret, gvars, xprims>>

\* (mutant) any record of the frontier, not a lightest one
IsMinFrontier_any(f) == f \in frontier

\* min_by_key over the frontier: a record of least weight, whichever of the
\* least ones the iteration order of the set puts first
IsMinFrontier(f) == f \in frontier /\ \A g \in frontier : f[2][2] <= g[2][2]

\* (mutant) the far end is added again when res holds it already
PrimsNew_always(to) == TRUE

\* !res.contains(&to)
PrimsNew(to) == to \notin DOMAIN res

\* one iteration of the while let: the record (from, (to, weight)) leaves
\* the frontier; a new far end enters res with the edge, its weight is added
\* to total and the edges out of it join the frontier
prims_extract(f) ==
    /\ pc = "prims_while"
    /\ IsMinFrontier(f)
    /\ LET from == f[1]
           to == f[2][1]
           w == f[2][2]
       IN IF PrimsNew(to)
             THEN /\ res' = InsertEdgeWeighted(InsertNode(res, to), from, to, w)
                  /\ total' = total + w
                  /\ frontier' = (frontier \ {f}) \cup FrontierOf(to)
             ELSE /\ frontier' = frontier \ {f}
                  /\ UNCHANGED <<res, total>>
    /\ UNCHANGED <<ctl, gvars, main, origin, xprims>>

\* the frontier is empty: (res, total) is returned
prims_return ==
    /\ pc = "prims_while"
    /\ frontier = {}
    /\ ret' = MapInsert(ret, "prims", [graph |-> res, total |-> total])
    /\ pc' = "prims_done"
    /\ UNCHANGED <<gvars, main, origin, res, frontier, total, xprims>>

Prims ==
    \/ \E o \in Nodes : prims_call(o)
    \/ \E f \in Nodes \X (Nodes \X Weights) : prims_extract(f)
    \/ prims_return

-----------------------------------------------------------------------------
\* BinaryHeap (binary_heap.rs).  The inner Vec is the sequence heap; the
\* element at index i of the Vec is At(heap, i), the blank is At(heap, 0).

\* what the heap operations leave alone
xheap == <<gvars, origin, target, djvars, dfsvars, dagvars, bfsvars, primsvars, list, count,
           mapvars, chartvars, histvars>>

HeapVals == 0..MaxVal

\* inner[i]
At(inner, i) == inner[i + 1]

\* inner.swap(i, j)
Swap(inner, i, j) ==
    [k \in 1..Len(inner) |->
        IF k = i + 1 THEN inner[j + 1]
        ELSE IF k = j + 1 THEN inner[i + 1]
        ELSE inner[k]]

\* inner.remove(n) for the last index n
RemoveLast(inner) == SubSeq(inner, 1, Len(inner) - 1)

\* the blank, T::default()
Blank == 0

new == <<Blank>>

len(h) == Len(h) - 1

parent_index(index) == IF index = 1 THEN None ELSE Some(index \div 2)

left_child_index(index) == index * 2

\* bubble_up: swap with the parent while the parent is greater
RECURSIVE bubble_up(_, _)
bubble_up(inner, index) ==
    LET parent == parent_index(index)
    IN IF IsSome(parent) /\ At(inner, parent.val) > At(inner, index)
          THEN bubble_up(Swap(inner, index, parent.val), parent.val)
          ELSE inner

\* one turn of the loop over the two children in bubble_down
MinIndex(inner, min_index, child) ==
    IF child <= Len(inner) - 1 /\ At(inner, min_index) > At(inner, child)
       THEN child
       ELSE min_index

\* (mutant) one swap with the smaller child, and no further
bubble_down_once(inner, index) ==
    LET left == left_child_index(index)
        min_index == MinIndex(inner, MinIndex(inner, index, left), left + 1)
    IN IF min_index # index THEN Swap(inner, index, min_index) ELSE inner

\* bubble_down: swap with the smaller child while a child is smaller
RECURSIVE bubble_down(_, _)
bubble_down(inner, index) ==
    LET left == left_child_index(index)
        min_index == MinIndex(inner, MinIndex(inner, index, left), left + 1)
    IN IF min_index # index
          THEN bubble_down(Swap(inner, index, min_index), min_index)
          ELSE inner

\* the loop of heapify: bubble_down at i, i - 1, ..., 1
RECURSIVE HeapifyFrom(_, _)
HeapifyFrom(inner, i) ==
    IF i < 1 THEN inner ELSE HeapifyFrom(bubble_down(inner, i), i - 1)

\* (mutant) the blank and the elements of source, in the order of source
heapify_plain(source) == <<Blank>> \o source

heapify(source) == HeapifyFrom(<<Blank>> \o source, Len(source) \div 2)

from_slice(source) == heapify(source)

\* (mutant) self.0.get(0): the blank
min_blank(h) == IF 0 < Len(h) THEN Some(At(h, 0)) ELSE None

\* min: self.0.get(1)
min(h) == IF 1 < Len(h) THEN Some(At(h, 1)) ELSE None

\* search: the index of item in the sub-tree at index, the left child first;
\* a sub-tree whose root is greater than item is not searched
RECURSIVE search(_, _, _)
search(h, item, index) ==
    IF index >= Len(h) THEN None
    ELSE IF item = At(h, index) THEN Some(index)
    ELSE IF item > At(h, index)
       THEN LET l == search(h, item, left_child_index(index))
            IN IF IsSome(l) THEN l
               ELSE search(h, item, left_child_index(index) + 1)
    ELSE None

\* remove_at: the last leaf takes the place of the node at index and is
\* bubbled down from there
remove_at(h, index) == bubble_down(RemoveLast(Swap(h, index, len(h))), index)

\* insert: push, then bubble_up from the new leaf
insert(item) ==
    /\ pc = "heap"
    /\ len(heap) < MaxHeapLen
    /\ heap' = bubble_up(Append(heap, item), len(Append(heap, item)))
    /\ main' = "insert"
    /\ arg' = item
    /\ UNCHANGED <<pc, ret, xheap>>

\* extract_min: the assert fails on an empty heap; else the last leaf takes
\* the place of the root, the root is returned
extract_min ==
    /\ pc = "heap"
    /\ main' = "extract_min"
    /\ IF len(heap) > 0
          THEN /\ heap' = bubble_down(RemoveLast(Swap(heap, 1, len(heap))), 1)
               /\ ret' = MapInsert(ret, "extract_min", At(heap, 1))
               /\ pc' = pc
          ELSE /\ pc' = "panic"
               /\ UNCHANGED <<heap, ret>>
    /\ UNCHANGED <<xheap, arg>>

\* remove: search from the root, remove_at the index found, if any
remove(item) ==
    /\ pc = "heap"
    /\ main' = "remove"
    /\ LET i == search(heap, item, 1)
       IN heap' = IF IsSome(i) THEN remove_at(heap, i.val) ELSE heap
    /\ arg' = item
    /\ UNCHANGED <<pc, ret, xheap>>

BinaryHeapOps ==
    \/ \E item \in HeapVals : insert(item)
    \/ extract_min
    \/ \E item \in HeapVals : remove(item)

-----------------------------------------------------------------------------
\* into_sorted_vec and heapsort (binary_heap.rs)

\* what into_sorted_vec and heapsort leave alone
xsort == <<gvars, origin, target, dist, prev, known, node, weight, todo, cur,
           dfsvars, dagvars, bfsvars, primsvars, arg, mapvars, chartvars, histvars>>

\* the slices a heap is built from
Slices == UNION {[1..n -> HeapVals] : n \in 0..MaxHeapLen}

\* from_slice(items) followed by the entry of into_sorted_vec: res empty, the
\* range 0..self.len() fixed
SortBegin(items) ==
    /\ pc = "sort"
    /\ list' = items
    /\ heap' = from_slice(items)
    /\ res' = <<>>
    /\ count' = len(from_slice(items))
    /\ pc' = "sort_for"
    /\ UNCHANGED <<ret, xsort>>

\* BinaryHeap::from_slice(&list).into_sorted_vec()
into_sorted_vec_call(items) == main' = "into_sorted_vec" /\ SortBegin(items)

\* heapsort(&mut list)
heapsort(items) == main' = "heapsort" /\ SortBegin(items)

\* one iteration of for _ in 0..self.len(): res.push(self.extract_min())
into_sorted_vec_for ==
    /\ pc = "sort_for"
    /\ Len(res) < count
    /\ IF len(heap) > 0
          THEN /\ res' = Append(res, At(heap, 1))
               /\ heap' = bubble_down(RemoveLast(Swap(heap, 1, len(heap))), 1)
               /\ pc' = pc
          ELSE /\ pc' = "panic"
               /\ UNCHANGED <<res, heap>>
    /\ UNCHANGED <<ret, main, list, count, xsort>>

\* the loop is over: res is returned; heapsort stores it in *list
into_sorted_vec_return ==
    /\ pc = "sort_for"
    /\ Len(res) >= count
    /\ ret' = MapInsert(ret, main, res)
    /\ pc' = "sort_done"
    /\ UNCHANGED <<main, res, heapvars, xsort>>

HeapSorting ==
    \/ \E items \in Slices : into_sorted_vec_call(items)
    \/ \E items \in Slices : heapsort(items)
    \/ into_sorted_vec_for
    \/ into_sorted_vec_return

-----------------------------------------------------------------------------
\* BST (maps/bst.rs).  A node is a record of mem, a Cursor is the index of a
\* node in mem, or Null for None.  Nodes are allocated by Box::into_raw and
\* never freed.

\* what the map operations leave alone
xmap == <<gvars, origin, target, djvars, dfsvars, dagvars, bfsvars, primsvars, heapvars,
          chartvars, histvars>>

Null == 0

Keys == 1..MaxKey
MapVals == 0..MaxMapVal

\* BST::new
bst_new == [root |-> Null, size |-> 0, mem |-> <<>>]

\* get_node: the node of key in the sub-tree at cursor, found by the search
\* order of the keys
RECURSIVE get_node(_, _, _)
get_node(m, k, cursor) ==
    IF cursor = Null THEN Null
    ELSE LET data == m.mem[cursor].key
         IN IF data = k THEN cursor
            ELSE IF data > k THEN get_node(m, k, m.mem[cursor].left)
            ELSE get_node(m, k, m.mem[cursor].right)

\* get_min_node: the leftmost node of the sub-tree at cursor
RECURSIVE get_min_node(_, _)
get_min_node(m, cursor) ==
    IF cursor = Null THEN Null
    ELSE IF m.mem[cursor].left # Null THEN get_min_node(m, m.mem[cursor].left)
    ELSE cursor

\* Box::new(Node { key, value, left: None, right: None, parent })
NewNode(k, v, parent) ==
    [key |-> k, value |-> v, left |-> Null, right |-> Null, parent |-> parent]

\* insert_rec: the map after the call and the value returned
RECURSIVE insert_rec(_, _, _, _, _)
insert_rec(m, cursor, k, v, parent) ==
    LET fresh == Len(m.mem) + 1
    IN IF cursor = Null /\ parent = Null
          THEN [map |-> [root |-> fresh, size |-> m.size + 1,
                         mem |-> Append(m.mem, NewNode(k, v, Null))],
                res |-> TRUE]
       ELSE IF cursor = Null /\ m.mem[parent].key > k
          THEN [map |-> [m EXCEPT !.size = @ + 1,
                                  !.mem = Append([@ EXCEPT ![parent].left = fresh],
                                                 NewNode(k, v, parent))],
                res |-> TRUE]
       ELSE IF cursor = Null
          THEN [map |-> [m EXCEPT !.size = @ + 1,
                                  !.mem = Append([@ EXCEPT ![parent].right = fresh],
                                                 NewNode(k, v, parent))],
                res |-> TRUE]
       ELSE IF m.mem[cursor].key = k
          THEN [map |-> [m EXCEPT !.mem[cursor].value = v], res |-> FALSE]
       ELSE IF m.mem[cursor].key > k
          THEN insert_rec(m, m.mem[cursor].left, k, v, cursor)
       ELSE insert_rec(m, m.mem[cursor].right, k, v, cursor)

\* the replacement of node in remove: its only child, or the leftmost node
\* of its right sub-tree when it has both
Replacement(m, nd) ==
    LET n == m.mem[nd]
    IN IF n.left = Null /\ n.right = Null THEN Null
       ELSE IF n.left = Null THEN n.right
       ELSE IF n.right = Null THEN n.left
       ELSE get_min_node(m, n.right)

\* the closure of remove on the node found: the parent of the children of
\* node is set to the parent of node, then the link of that parent to node,
\* or the root, is set to the replacement
RemoveNode(m, nd) ==
    LET n == m.mem[nd]
        replacement == Replacement(m, nd)
        mem1 == IF n.left # Null
                   THEN [m.mem EXCEPT ![n.left].parent = n.parent] ELSE m.mem
        mem2 == IF n.right # Null
                   THEN [mem1 EXCEPT ![n.right].parent = n.parent] ELSE mem1
        par == mem2[nd].parent
    IN IF par # Null
          THEN IF mem2[par].left = nd
                  THEN [m EXCEPT !.mem = [mem2 EXCEPT ![par].left = replacement]]
                  ELSE [m EXCEPT !.mem = [mem2 EXCEPT ![par].right = replacement]]
          ELSE [m EXCEPT !.mem = mem2, !.root = replacement]

bst_contains_key(m, k) == get_node(m, k, m.root) # Null

bst_get(m, k) ==
    LET nd == get_node(m, k, m.root)
    IN IF nd # Null THEN Some(m.mem[nd].value) ELSE None

bst_len(m) == m.size

\* BST::insert
bst_insert(k, v) ==
    /\ pc = "map"
    /\ Len(map.mem) < MaxAllocs
    /\ LET r == insert_rec(map, map.root, k, v, Null)
       IN /\ map' = r.map
          /\ ret' = MapInsert(ret, "insert", r.res)
    /\ main' = "insert"
    /\ key' = k
    /\ shadow' = MapInsert(shadow, k, v)
    /\ UNCHANGED <<pc, xmap>>

\* BST::remove: self.size -= 1 fails on a size of 0 in a build with overflow
\* checks and wraps to usize::MAX in a build without
bst_remove(k) ==
    /\ pc = "map"
    /\ main' = "remove"
    /\ key' = k
    /\ shadow' = MapRemove(shadow, k)
    /\ LET nd == get_node(map, k, map.root)
       IN IF nd = Null
             THEN /\ ret' = MapInsert(ret, "remove", FALSE)
                  /\ UNCHANGED <<map, pc>>
             ELSE IF map.size = 0
             THEN \/ pc' = "panic" /\ UNCHANGED <<map, ret>>
                  \/ /\ map' = RemoveNode([map EXCEPT !.size = UsizeMax], nd)
                     /\ ret' = MapInsert(ret, "remove", TRUE)
                     /\ pc' = pc
             ELSE /\ map' = RemoveNode([map EXCEPT !.size = @ - 1], nd)
                  /\ ret' = MapInsert(ret, "remove", TRUE)
                  /\ pc' = pc
    /\ UNCHANGED xmap

BstOps ==
    \/ \E k \in Keys, v \in MapVals : bst_insert(k, v)
    \/ \E k \in Keys : bst_remove(k)

-----------------------------------------------------------------------------
\* The state after XGraph::new(), no call made yet
InitState(k, p, m, h) ==
    /\ pc = p
    /\ main = m
    /\ ret = EmptyMap
    /\ kind = k
    /\ adj = EmptyMap
    /\ origin = 0
    /\ target = 0
    /\ dist = EmptyMap
    /\ prev = EmptyMap
    /\ known = {}
    /\ node = 0
    /\ weight = 0
    /\ todo = {}
    /\ res = <<>>
    /\ cur = None
    /\ roots = {}
    /\ order = <<>>
    /\ cyclic = FALSE
    /\ perm_mark = {}
    /\ temp_mark = {}
    /\ all_todo = {}
    /\ stack = <<>>
    /\ weights = EmptyMap
    /\ preds = EmptyMap
    /\ found = FALSE
    /\ cur_weight = 0
    /\ frontier = <<>>
    /\ new_frontier = <<>>
    /\ parents = <<>>
    /\ total = 0
    /\ heap = h
    /\ list = <<>>
    /\ count = 0
    /\ arg = 0
    /\ map = [root |-> 0, size |-> 0, mem |-> <<>>]
    /\ key = 0
    /\ shadow = EmptyMap
    /\ marks = EmptyMap
    /\ trees = EmptyMap
    /\ topo = <<>>
    /\ adj_before = EmptyMap

InitKind(k) == InitState(k, "build", "none", new)

InitWeighted == InitKind("weighted")
InitDirected == InitKind("directed")

\* A caller that builds a WeightedGraph and calls dijkstras on it
NextDijkstras == BuildWeighted \/ Dijkstras

SpecDijkstras == InitWeighted /\ [][NextDijkstras]_vars

\* a call of dijkstras runs on: nothing else runs while it does, so a step
\* of it that stays possible is taken
SpecDijkstrasLive == SpecDijkstras /\ WF_vars(DijkstrasSteps)

\* A caller that builds a DirectedGraph and calls depth_first_search on it
NextDfs == BuildDirected \/ DepthFirstSearch

SpecDfs == InitDirected /\ [][NextDfs]_vars

\* A caller that builds a DirectedGraph and calls breadth_first_search on it
NextBfs == BuildDirected \/ BreadthFirstSearch

SpecBfs == InitDirected /\ [][NextBfs]_vars

\* A caller that builds a WeightedGraph, edges given one way or both ways,
\* and calls prims on it
NextPrims == BuildPaired \/ Prims

SpecPrims == InitWeighted /\ [][NextPrims]_vars

\* A caller that builds a WeightedGraph and calls dag on it, then dijkstras
\* on the same graph, origin and target
NextDag == BuildWeighted \/ Dag \/ DepthFirstSearchSteps \/ Dijkstras

SpecDag == InitWeighted /\ [][NextDag]_vars

\* A caller that builds a DirectedGraph and calls chart_forest on it
NextChart == BuildDirected \/ ChartForest

SpecChart == InitDirected /\ [][NextChart]_vars

\* A caller that owns a DirectedGraph, a WeightedGraph or an UndirectedGraph
\* and calls its operations
InitGraphs == \E k \in {"directed", "weighted", "undirected"} : InitKind(k)

NextGraphs == GraphOps

SpecGraphs == InitGraphs /\ [][NextGraphs]_vars

\* The state after BinaryHeap::new() or BinaryHeap::from_slice(source)
InitHeap ==
    \/ InitState("none", "heap", "new", new)
    \/ \E source \in Slices : InitState("none", "heap", "from_slice", from_slice(source))

\* A caller that owns a BinaryHeap and calls insert, extract_min and remove
NextHeap == BinaryHeapOps

SpecHeap == InitHeap /\ [][NextHeap]_vars

\* A caller that owns a BST and calls insert and remove
InitBst ==
    /\ InitState("none", "map", "new", new)
    /\ map = bst_new

NextBst == BstOps

SpecBst == InitBst /\ [][NextBst]_vars

\* A caller that builds an UndirectedGraph
InitUndirected == InitKind("undirected")

NextUndirected == BuildUndirected

SpecUndirected == InitUndirected /\ [][NextUndirected]_vars

\* A caller that sorts a list through the heap
InitSort == InitState("none", "sort", "none", new)

NextSort == HeapSorting

SpecSort == InitSort /\ [][NextSort]_vars

-----------------------------------------------------------------------------
\* Reference definitions on the graph: paths and least total weights

SetMin(S) == CHOOSE x \in S : \A y \in S : x <= y

\* more than any simple path weighs
Inf == MaxNodes * MaxWeight + 1

\* the weights of the edges u -> v
EdgeWeights(u, v) == {e[2] : e \in {x \in get_adj_weighted(u) : x[1] = v}}

\* every consecutive pair of p is joined by an edge
IsPath(p) == \A i \in 1..(Len(p) - 1) : p[i + 1] \in get_adj(p[i])

\* the sum of the cheapest edge weights along p
RECURSIVE PathWeight(_)
PathWeight(p) ==
    IF Len(p) < 2 THEN 0
    ELSE SetMin(EdgeWeights(p[1], p[2])) + PathWeight(Tail(p))

\* k rounds of relaxing every edge (Bellman-Ford)
RECURSIVE RelaxRounds(_, _)
RelaxRounds(d, k) ==
    IF k = 0 THEN d
    ELSE RelaxRounds(
           [v \in Nodes |->
              SetMin({d[v]} \cup
                     {d[x[1]] + x[2] :
                        x \in {y \in Nodes \X Weights :
                                 d[y[1]] < Inf /\ <<v, y[2]>> \in get_adj_weighted(y[1])}})],
           k - 1)

\* the least total weight over all paths o -> t, Inf when there is none
ShortestDist(o, t) ==
    RelaxRounds([v \in Nodes |-> IF v = o THEN 0 ELSE Inf], MaxNodes)[t]

\* the nodes reached from the nodes of S by edges, S included
RECURSIVE Closure(_)
Closure(S) ==
    LET T == S \cup UNION {get_adj(n) : n \in S}
    IN IF T = S THEN S ELSE Closure(T)

\* the nodes reached from n by one edge or more
ReachedFrom(n) == Closure(get_adj(n))

\* the graph has a directed cycle: a node reached from itself
HasCycle == \E n \in Nodes : n \in ReachedFrom(n)

\* u stands before v in the sequence s
Precedes(s, u, v) == \E i, j \in 1..Len(s) : i < j /\ s[i] = u /\ s[j] = v

\* the least number of edges of a path from a node of S to n, counted from
\* k; Inf when n is not reached
RECURSIVE Hops(_, _, _)
Hops(S, n, k) ==
    LET T == S \cup UNION {get_adj(m) : m \in S}
    IN IF n \in S THEN k
       ELSE IF T = S THEN Inf
       ELSE Hops(T, n, k + 1)

HopDist(o, n) == Hops({o}, n, 0)

\* the edges (from, to, weight) of the weighted adjacency map g
EdgesOf(g) == UNION {{<<u, e[1], e[2]>> : e \in g[u]} : u \in DOMAIN g}

RECURSIVE SumWeights(_)
SumWeights(T) ==
    IF T = {} THEN 0
    ELSE LET e == CHOOSE x \in T : TRUE
         IN e[3] + SumWeights(T \ {e})

\* the nodes joined to the nodes of S by edges of T taken from -> to
RECURSIVE ReachedAlong(_, _)
ReachedAlong(S, T) ==
    LET S2 == S \cup {e[2] : e \in {x \in T : x[1] \in S}}
    IN IF S2 = S THEN S ELSE ReachedAlong(S2, T)

\* the nodes joined to the nodes of S by edges of T taken either way
RECURSIVE JoinedBy(_, _)
JoinedBy(S, T) ==
    LET S2 == S \cup {e[2] : e \in {x \in T : x[1] \in S}}
                \cup {e[1] : e \in {x \in T : x[2] \in S}}
    IN IF S2 = S THEN S ELSE JoinedBy(S2, T)

\* every edge is stored in both directions with the same weight
Symmetric ==
    \A u \in DOMAIN adj : \A e \in adj[u] : <<u, e[2]>> \in get_adj_weighted(e[1])

\* the spanning trees of the component of o: the sets of edges, one fewer
\* than the nodes of the component, that join all of them to o
SpanningTrees(o) ==
    {T \in SUBSET EdgesOf(adj) :
        /\ Cardinality(T) = Cardinality(Closure({o})) - 1
        /\ JoinedBy({o}, T) = Closure({o})}

MinSpanningWeight(o) == SetMin({SumWeights(T) : T \in SpanningTrees(o)})

-----------------------------------------------------------------------------
\* C1: a path returned by dijkstras starts with origin, ends with target,
\* follows edges of the graph, and its weight (the cheapest edge between
\* each consecutive pair) is the least total weight over all paths from
\* origin to target, whichever least entry and whichever adjacency order
\* the hash iteration took.
C1_DijkstrasShortest ==
    (pc = "dj_done" /\ IsSome(ret["dijkstras"])) =>
        LET p == ret["dijkstras"].val
        IN /\ p[1] = origin
           /\ p[Len(p)] = target
           /\ IsPath(p)
           /\ PathWeight(p) = ShortestDist(origin, target)

\* dijkstras has returned a two-edge path although an edge origin -> target
\* exists, every such edge being dearer than the path
C1_Witness ==
    /\ pc = "dj_done"
    /\ main = "dijkstras"
    /\ IsSome(ret["dijkstras"])
    /\ Len(ret["dijkstras"].val) = 3
    /\ target \in get_adj(origin)
    /\ PathWeight(ret["dijkstras"].val) < SetMin(EdgeWeights(origin, target))

\* C3: depth_first_search returns cyclic = TRUE exactly when the graph has
\* a directed cycle (a self-loop and two opposite arcs are cycles), in
\* whichever order the nodes are enumerated and the adjacency sets iterated.
C3_CyclicIffCycle ==
    pc = "dfs_done" => (ret["depth_first_search"].cyclic <=> HasCycle)

\* depth_first_search has reported a cycle in a graph of three visited
\* nodes none of which has a self-loop
C3_Witness ==
    /\ pc = "dfs_done"
    /\ ret["depth_first_search"].cyclic
    /\ Len(ret["depth_first_search"].order) = 3
    /\ \A n \in Nodes : n \notin get_adj(n)

\* C4: when depth_first_search reports cyclic = FALSE, the returned order
\* is a topological order: for every edge (u, v), u stands before v.
C4_TopologicalOrder ==
    (pc = "dfs_done" /\ ~ret["depth_first_search"].cyclic) =>
        \A u \in DOMAIN adj : \A v \in get_adj(u) :
            Precedes(ret["depth_first_search"].order, u, v)

\* depth_first_search has returned cyclic = FALSE on a graph in which a
\* node is reached both directly and through another node
C4_Witness ==
    /\ pc = "dfs_done"
    /\ ~ret["depth_first_search"].cyclic
    /\ \E u, v, w \in DOMAIN adj :
          /\ v \in get_adj(u)
          /\ w \in get_adj(u)
          /\ w \in get_adj(v)

\* C5: every node n of the map returned by breadth_first_search is mapped
\* to a sequence whose length is the least number of edges of a path from
\* origin to n; origin is mapped to the empty sequence.
C5_BfsShortest ==
    pc = "bfs_done" =>
        /\ \A n \in DOMAIN ret["breadth_first_search"] :
              Len(ret["breadth_first_search"][n]) = HopDist(origin, n)
        /\ ret["breadth_first_search"][origin] = <<>>

\* breadth_first_search has returned a map in which a node one edge away
\* from origin is also reached by a path of two edges
C5_Witness ==
    /\ pc = "bfs_done"
    /\ \E n, m \in DOMAIN ret["breadth_first_search"] :
          /\ Len(ret["breadth_first_search"][m]) = 1
          /\ Len(ret["breadth_first_search"][n]) = 1
          /\ m # n
          /\ n \in get_adj(m)

\* C6: the keys of the map returned by breadth_first_search are exactly
\* the nodes reached from origin along edges, origin included; an origin
\* that is not a key of the graph gives the map {origin -> []}.
C6_BfsKeysReachable ==
    pc = "bfs_done" =>
        /\ DOMAIN ret["breadth_first_search"] = Closure({origin})
        /\ ~contains(origin) =>
              ret["breadth_first_search"] = MapInsert(EmptyMap, origin, <<>>)

\* breadth_first_search has returned a map of two keys or more that leaves
\* out a key of the graph, one with an edge to origin
C6_Witness ==
    /\ pc = "bfs_done"
    /\ Cardinality(DOMAIN ret["breadth_first_search"]) >= 2
    /\ \E n \in DOMAIN adj :
          /\ n \notin DOMAIN ret["breadth_first_search"]
          /\ origin \in get_adj(n)

\* C7: on a graph whose edges are all stored in both directions with the
\* same weight, the total returned by prims is the least total weight of a
\* spanning tree of the component of the start node, whichever of the
\* lightest frontier edges each extraction took.
C7_PrimsMinimum ==
    (pc = "prims_done" /\ Symmetric) =>
        ret["prims"].total = MinSpanningWeight(origin)

\* prims has returned on a symmetric graph of three nodes, each joined to
\* the two others, that has a spanning tree heavier than the returned total
C7_Witness ==
    /\ pc = "prims_done"
    /\ Symmetric
    /\ Cardinality(DOMAIN ret["prims"].graph) = 3
    /\ \A u, v \in DOMAIN ret["prims"].graph : u # v => v \in get_adj(u)
    /\ \E T \in SpanningTrees(origin) : SumWeights(T) > ret["prims"].total

\* C8: the graph returned by prims has one edge fewer than it has nodes,
\* each of its edges is an edge of the input graph with the same weight,
\* each of its nodes is reached from the start node along its edges, and
\* the returned total is the sum of the weights of its edges.
C8_PrimsTree ==
    pc = "prims_done" =>
        LET g == ret["prims"].graph
        IN /\ Cardinality(EdgesOf(g)) = Cardinality(DOMAIN g) - 1
           /\ EdgesOf(g) \subseteq EdgesOf(adj)
           /\ ReachedAlong({origin}, EdgesOf(g)) = DOMAIN g
           /\ ret["prims"].total = SumWeights(EdgesOf(g))

\* prims has returned a graph of three nodes and left out an edge of the
\* input graph between two of them
C8_Witness ==
    /\ pc = "prims_done"
    /\ Cardinality(DOMAIN ret["prims"].graph) = 3
    /\ \E e \in EdgesOf(adj) :
          /\ e \notin EdgesOf(ret["prims"].graph)
          /\ e[1] # e[2]
          /\ e[2] # origin

\* C2: on an acyclic weighted graph with non-negative weights, parallel
\* edges of different weight allowed, dag and dijkstras agree for every
\* origin and target: both return None or both return a path, and the two
\* paths have the same total weight.  Stated for the graphs whose edges all
\* end at stored nodes and for the origins and targets stored in the graph.
C2_DagAgreesWithDijkstras ==
    (/\ pc = "dj_done" /\ main = "dag" /\ ~HasCycle
     /\ \A n \in DOMAIN adj : get_adj(n) \subseteq DOMAIN adj
     /\ origin \in DOMAIN adj /\ target \in DOMAIN adj) =>
        /\ ret["dag"].tag = ret["dijkstras"].tag
        /\ IsSome(ret["dag"]) =>
               /\ IsPath(ret["dag"].val)
               /\ PathWeight(ret["dag"].val) = PathWeight(ret["dijkstras"].val)

-----------------------------------------------------------------------------
\* Reference definitions on the heap

\* the values stored, the blank left out
Stored(h) == {At(h, i) : i \in 1..len(h)}

\* every element at an index i > 1 is at least the element at i / 2
HeapOrdered(h) == \A i \in 2..len(h) : At(h, i) >= At(h, i \div 2)

\* C9: after any sequence of insert, extract_min and remove on a heap made
\* by new() or from_slice, every element at a backing index i > 1 is greater
\* than or equal to its parent, the element at index i / 2.
C9_HeapInvariant == pc \in {"heap", "panic"} => HeapOrdered(heap)

\* C10: after any sequence of insert, extract_min and remove, min() is the
\* smallest element stored, extract_min returns that element, an extraction
\* makes len() one less and an insert makes it one more.
C10_MinExtractLen ==
    [][/\ pc' = "heap" /\ len(heap') > 0 => min(heap') = Some(SetMin(Stored(heap')))
       /\ pc' = "heap" /\ main' = "extract_min" =>
              /\ ret'["extract_min"] = SetMin(Stored(heap))
              /\ Some(ret'["extract_min"]) = min(heap)
              /\ len(heap') = len(heap) - 1
       /\ pc' = "heap" /\ main' = "insert" => len(heap') = len(heap) + 1]_vars

-----------------------------------------------------------------------------
\* Reference definitions on sequences

IsSorted(s) == \A i \in 1..(Len(s) - 1) : s[i] <= s[i + 1]

\* how many times v stands in s
Count(s, v) == Cardinality({i \in 1..Len(s) : s[i] = v})

\* s and t hold the same values the same number of times
SameElements(s, t) == \A v \in HeapVals : Count(s, v) = Count(t, v)

\* C11: for every list, from_slice(list).into_sorted_vec() and
\* heapsort(list) give the elements of the list, duplicates included, in
\* non-decreasing order, and neither fails.
C11_HeapsortSorts ==
    /\ pc = "sort_done" =>
           /\ main \in DOMAIN ret
           /\ IsSorted(ret[main])
           /\ SameElements(ret[main], list)
           /\ Len(ret[main]) = Len(list)
    /\ main \in {"heapsort", "into_sorted_vec"} => pc # "panic"

\* a list of four or more values, not in order and with a duplicate, has
\* been sorted by heapsort
C11_Witness ==
    /\ pc = "sort_done" /\ main = "heapsort"
    /\ Len(list) >= 4
    /\ ~IsSorted(list)
    /\ \E v \in HeapVals : Count(list, v) >= 2
    /\ ret["heapsort"] # list

\* the values stored in the heap h, as a sequence
Contents(h) == SubSeq(h, 2, Len(h))

\* C12: on any heap reached by insert, extract_min and remove, remove(item)
\* deletes exactly one occurrence of item when the heap holds it (len one
\* less, every other element kept) and leaves the heap unchanged when it
\* does not hold it.
C12_RemoveOneOccurrence ==
    [][(pc = "heap" /\ pc' = "heap" /\ main' = "remove") =>
          IF arg' \in Stored(heap)
             THEN /\ len(heap') = len(heap) - 1
                  /\ \A v \in HeapVals :
                        Count(Contents(heap'), v) =
                           Count(Contents(heap), v) - (IF v = arg' THEN 1 ELSE 0)
             ELSE heap' = heap]_vars

\* C13: dijkstras returns None if and only if target is not reached from
\* origin along the edges of the graph; it returns Some([origin]) when
\* target is origin, stored in the graph or not.
C13_DijkstrasNoneIffUnreachable ==
    (pc = "dj_done" /\ main = "dijkstras") =>
        /\ IsNone(ret["dijkstras"]) <=>
               ~(target = origin \/ target \in ReachedFrom(origin))
        /\ target = origin => ret["dijkstras"] = Some(<<origin>>)

\* None has been returned for a stored target on a graph where origin has
\* an edge to another node
C13_Witness ==
    /\ pc = "dj_done" /\ main = "dijkstras"
    /\ IsNone(ret["dijkstras"])
    /\ target \in DOMAIN adj
    /\ \E n \in get_adj(origin) : n # origin /\ get_adj(n) # {}

\* C14: on an acyclic weighted graph, for an origin and a target such that
\* target is not reached from origin (target after origin in the order, or
\* origin or target not stored, included), dag returns None: it does not
\* panic and it returns no path.
C14_DagNoneWhenUnreachable ==
    (/\ main = "dag" /\ ~HasCycle
     /\ target # origin /\ target \notin ReachedFrom(origin)) =>
        /\ pc # "panic"
        /\ "dag" \in DOMAIN ret => IsNone(ret["dag"])

\* C15: whenever depth_first_search reports the graph cyclic, dag fails its
\* assertion and returns no value, for every origin and target, the cycle
\* reached from origin or not.
C15_DagAssertsAcyclic ==
    (/\ main = "dag" /\ "depth_first_search" \in DOMAIN ret
     /\ ret["depth_first_search"].cyclic /\ pc # "dag_assert") =>
        /\ pc = "panic"
        /\ "dag" \notin DOMAIN ret

\* dag has failed its assertion on a graph whose cycle is not reached from
\* the stored origin
C15_Witness ==
    /\ main = "dag" /\ pc = "panic"
    /\ "depth_first_search" \in DOMAIN ret /\ ret["depth_first_search"].cyclic
    /\ origin \in DOMAIN adj /\ get_adj(origin) # {}
    /\ \A n \in {origin} \cup ReachedFrom(origin) : n \notin ReachedFrom(n)

\* C16: whenever the heap holds no element (made by new(), built from an
\* empty slice, or emptied by extract_min and remove), min() returns None
\* and extract_min fails its assertion and returns no value.
C16_EmptyHeap ==
    /\ [](len(heap) = 0 => IsNone(min(heap)))
    /\ [][(pc = "heap" /\ len(heap) = 0 /\ main' = "extract_min") =>
              (pc' = "panic" /\ ret' = ret)]_vars

\* extract_min has failed its assertion on a heap emptied by extractions
\* after a remove
C16_Witness ==
    /\ pc = "panic" /\ main = "extract_min"
    /\ len(heap) = 0
    /\ "extract_min" \in DOMAIN ret

\* C17: after any sequence of insert_node, insert_edge, remove_edge and
\* remove_node on an UndirectedGraph the adjacency is symmetric: v is in
\* get_adj(u) if and only if u is in get_adj(v).
C17_UndirectedSymmetric ==
    kind = "undirected" =>
        \A u \in Nodes, v \in Nodes : v \in get_adj(u) <=> u \in get_adj(v)

\* C18: after remove_node(n) on an UndirectedGraph n is absent and the set
\* of no remaining node holds n; after remove_node(n) on a DirectedGraph or
\* a WeightedGraph the entry of n alone is removed, the set of every other
\* node is as it was.
C18_RemoveNodeFrame ==
    [][\A n \in (DOMAIN adj) \ (DOMAIN adj') :
          /\ DOMAIN adj' = (DOMAIN adj) \ {n}
          /\ \A m \in DOMAIN adj' :
                IF kind = "undirected" THEN n \notin adj'[m]
                                       ELSE adj'[m] = adj[m]]_vars

\* C19: the roots returned by depth_first_search are exactly the nodes at
\* which the outer loop started an exploration, the nodes unmarked when the
\* loop reached them, on cyclic and acyclic graphs alike.  roots is empty at
\* the call and is returned as it stands when the loop ends, so this says that
\* every start puts its node in roots and that no step of the call takes a
\* node out of roots.
C19_RootsAreStarts ==
    [][(pc \in {"dfs_for", "dfs_visit"}) =>
          (/\ \A o \in all_todo \ all_todo' :
                 (o \notin perm_mark /\ o \notin temp_mark) => o \in roots'
           /\ roots \subseteq roots')]_vars

\* contains_key, get and len report the history shadow: the keys inserted
\* and not removed since, each with its latest value, and their number
MapAgrees ==
    /\ \A k \in Keys :
          /\ bst_contains_key(map, k) <=> k \in DOMAIN shadow
          /\ bst_get(map, k) = MapGet(shadow, k)
    /\ bst_len(map) = Cardinality(DOMAIN shadow)

\* C20: BST (AVL::remove runs the same re-linking, then bubble_up) behaves like a
\* reference key-value map under any sequence of insert and remove: insert
\* returns true iff the key was absent, remove returns true iff the key was
\* present, and afterwards contains_key, get and len report exactly the keys
\* inserted and not removed since, each with its latest value.
C20_MapRefinesReference ==
    [][/\ pc' = "map"
       /\ MapAgrees'
       /\ main' = "insert" => ret'["insert"] = (key' \notin DOMAIN shadow)
       /\ main' = "remove" => ret'["remove"] = (key' \in DOMAIN shadow)]_vars
-----------------------------------------------------------------------------
\* C21: for every node n other than origin in the map returned by
\* breadth_first_search, the sequence mapped to n starts with origin, every
\* consecutive pair of it is an edge of the graph, its last element has an
\* edge to n, and n does not occur in it.
C21_BfsPathsAreWalks ==
    pc = "bfs_done" =>
        \A n \in DOMAIN ret["breadth_first_search"] \ {origin} :
            LET p == ret["breadth_first_search"][n]
            IN /\ Len(p) >= 1
               /\ p[1] = origin
               /\ \A i \in 1..(Len(p) - 1) : p[i + 1] \in get_adj(p[i])
               /\ n \in get_adj(p[Len(p)])
               /\ \A i \in 1..Len(p) : p[i] # n

\* breadth_first_search has returned, on a graph with a cycle through a
\* node two edges away from origin, a path of two nodes for that node
C21_Witness ==
    /\ pc = "bfs_done"
    /\ \E n \in DOMAIN ret["breadth_first_search"] \ {origin} :
          /\ Len(ret["breadth_first_search"][n]) = 2
          /\ \E m \in get_adj(n) : n \in get_adj(m)

\* C22: the order returned by depth_first_search is a permutation of the
\* enumeration of the graph: every node of get_all occurs in it exactly
\* once and no other node occurs, on cyclic graphs and on graphs with
\* edges to removed nodes as well.
C22_OrderIsPermutation ==
    pc = "dfs_done" =>
        LET o == ret["depth_first_search"].order
        IN /\ \A n \in get_all : Count(o, n) = 1
           /\ \A i \in 1..Len(o) : o[i] \in get_all

\* C23: in dijkstras a node is finalized (added to known) at most once: a
\* node taken out of dist is not in known yet; once it is in known its
\* entry of prev never changes and it is never put back into dist; origin
\* never gets an entry in prev.
C23_FinalizedOnce ==
    [][(pc \in {"dj_while", "dj_relax"}) =>
          (/\ \A n \in DOMAIN dist \ DOMAIN dist' : n \notin known /\ n \in known'
           /\ \A n \in known : /\ n \in known'
                               /\ MapGet(prev', n) = MapGet(prev, n)
           /\ \A n \in known' : n \notin DOMAIN dist'
           /\ origin \notin DOMAIN prev')]_vars

\* the loop of dijkstras has gone through an edge that leads from node to
\* a node finalized earlier, other than origin, and through one to origin
C23_Witness ==
    /\ pc = "dj_relax"
    /\ \E e \in get_adj_weighted(node) \ todo :
          e[1] \in known /\ e[1] # node /\ e[1] # origin
    /\ \E e \in get_adj_weighted(node) \ todo : e[1] = origin /\ node # origin

\* the sequence s holds no value twice
NoRepeat(s) == \A i, j \in 1..Len(s) : i # j => s[i] # s[j]

\* C24: dijkstras terminates: every call returns; the loop is left for the
\* walk as soon as target is in known and for the return of None when dist
\* is empty; a node enters dist at most once (it enters with no entry in
\* prev, gets one on entering, and no entry of prev is ever removed); the
\* walk over prev visits no node twice and ends at origin.
C24_DijkstrasTerminates ==
    /\ (pc = "dj_while") ~> (pc = "dj_done")
    /\ [][(pc = "dj_while") =>
             (/\ target \in known => pc' = "dj_walk"
              /\ (target \notin known /\ DOMAIN dist = {}) =>
                    (pc' = "dj_done" /\ ret'["dijkstras"] = None))]_vars
    /\ [][(pc \in {"dj_while", "dj_relax"}) =>
             (/\ \A n \in DOMAIN dist' \ DOMAIN dist :
                    n \notin DOMAIN prev /\ n # origin /\ n \in DOMAIN prev'
              /\ DOMAIN prev \subseteq DOMAIN prev')]_vars
    /\ [](pc = "dj_walk" => NoRepeat(res))
    /\ []((pc = "dj_walk" /\ IsNone(cur)) => res[Len(res)] = origin)

\* dijkstras has returned a path of three nodes on a graph where the last
\* node of the path has an edge back to origin
C24_Witness ==
    /\ pc = "dj_done"
    /\ IsSome(ret["dijkstras"])
    /\ Len(ret["dijkstras"].val) = 3
    /\ origin \in get_adj(target)

\* C25: in dag, when a node that follows origin in the order is processed,
\* the weight recorded for it (read into cur_weight before its outgoing
\* edges are relaxed) is the least weight of a path from origin to it,
\* whatever the iteration order of the adjacency sets.
C25_DagWeightIsFinal ==
    (pc = "dag_relax" /\ ~HasCycle) => cur_weight = ShortestDist(origin, node)

\* C26: the nodes of the graph returned by prims are exactly the nodes
\* reached from the start node in the input graph, the start node included
\* even when it has no edge or is not stored; no node outside that set is
\* ever added, and prims returns when the frontier is empty.
C26_PrimsNodesAreComponent ==
    /\ pc \in {"prims_while", "prims_done"} =>
          /\ origin \in DOMAIN res
          /\ DOMAIN res \subseteq Closure({origin})
    /\ pc = "prims_done" =>
          /\ DOMAIN ret["prims"].graph = Closure({origin})
          /\ frontier = {}

\* prims has returned a graph of two nodes or more that leaves out a node
\* stored in the input graph
C26_Witness ==
    /\ pc = "prims_done"
    /\ Cardinality(DOMAIN ret["prims"].graph) >= 2
    /\ \E n \in DOMAIN adj : n \notin DOMAIN ret["prims"].graph

\* the nodes reached from n by one edge or more without leaving S
RECURSIVE ReachedWithin(_, _)
ReachedWithin(R, S) ==
    LET R2 == R \cup (UNION {get_adj(u) : u \in R} \cap S)
    IN IF R2 = R THEN R ELSE ReachedWithin(R2, S)

\* the nodes of S hold a directed cycle
CycleWithin(S) == \E n \in S : n \in ReachedWithin(get_adj(n) \cap S, S)

\* C27: for every tree of the ForestChart returned by chart_forest, the
\* flag cyclic of the tree is true exactly when the nodes of its topo hold
\* a directed cycle, whatever the enumeration order of the nodes and
\* whichever earlier trees were merged into it.
C27_TreeCyclicIffCycle ==
    pc = "chart_done" =>
        \A r \in DOMAIN ret["chart_forest"] :
            LET t == ret["chart_forest"][r]
            IN t.cyclic <=> CycleWithin({t.topo[i] : i \in 1..Len(t.topo)})

\* C28: for every sequence s, from_slice(s) holds the blank at index 0, the
\* elements of s, each as many times as s does, after it, and every element
\* at an index i > 1 is greater than or equal to its parent at index i / 2.
C28_FromSliceIsHeap ==
    (pc = "sort_for" /\ res = <<>>) =>
        /\ heap = from_slice(list)
        /\ At(heap, 0) = Blank
        /\ SameElements(Contents(heap), list)
        /\ \A i \in 2..len(heap) : At(heap, i) >= At(heap, i \div 2)

\* from_slice has been given a list of four elements or more that is not in
\* heap order: its first element is greater than a later one
C28_Witness ==
    /\ pc = "sort_for"
    /\ res = <<>>
    /\ Len(list) >= 4
    /\ \E i \in 2..Len(list) : list[1] > list[i]
    /\ heap # <<Blank>> \o list

\* C29: insert_node(n) on a DirectedGraph, an UndirectedGraph or a
\* WeightedGraph that stores n already binds n to the empty set; the number
\* of nodes, len(), and the set of every other node stay as they were.
C29_InsertNodeAgain ==
    (pc = "insert_node_done" /\ node \in DOMAIN adj_before) =>
        /\ node \in DOMAIN adj /\ adj[node] = {}
        /\ Cardinality(DOMAIN adj) = Cardinality(DOMAIN adj_before)
        /\ \A m \in (DOMAIN adj_before) \ {node} :
              m \in DOMAIN adj /\ adj[m] = adj_before[m]

\* insert_node has been called on a node that was stored with edges, in a
\* graph where another node has edges too
C29_Witness ==
    /\ pc = "insert_node_done"
    /\ node \in DOMAIN adj_before
    /\ adj_before[node] # {}
    /\ \E m \in (DOMAIN adj_before) \ {node} : adj_before[m] # {}

=============================================================================
